---- MODULE Spec2Model ----
(***************************************************************************)
(* Schedule resolution engine of the signage backend: the Schedule model   *)
(* (isCurrentlyActive, findCurrentlyActive), the ScheduleMonitor service   *)
(* (checkScheduleChanges, getCurrentActiveContent), the ContentService     *)
(* (getCurrentContent, fetchCurrentContent), the schedule controller       *)
(* (createSchedule, updateSchedule, deleteSchedule) and the socket         *)
(* handlers of server.js that serve the viewers.                           *)
(*                                                                         *)
(* Time is counted in minutes since 2023-01-01 00:00 UTC (a Sunday).  A    *)
(* Date / moment is the integer number of minutes of its instant; a moment *)
(* in a zone additionally has the wall-clock fields obtained by adding the *)
(* zone's UTC offset.                                                      *)
(***************************************************************************)
EXTENDS Integers, Sequences, FiniteSets, Bags, TLC

VARIABLES
    db,                     \* schedules collection, in natural (find) order
    contents,               \* contents collection: content id -> status
    now,                    \* the wall clock (new Date(), moment.utc())
    lastCheckedSchedules,   \* ScheduleMonitor.lastCheckedSchedules (Map)
    currentActiveSchedule,  \* ScheduleMonitor.currentActiveSchedule (id or NULL)
    ticks,                  \* bag of the executions of checkScheduleChanges in flight
    emitted,                \* events emitted by the tick that ran to its end last
    result,                 \* the operation applied last and the value it returned
    millis,                 \* the wall clock's milliseconds past the minute now
    contentCache,           \* ContentService.contentCache (Map)
    lastContentUpdate,      \* ContentService.lastContentUpdate (ms; 0 for null, falsy alike)
    calls,                  \* bag of the 'request-current-content' handlers in flight
    connectedUsers,         \* connectedUsers of server.js: socket id -> role
    sent,                   \* events the handler that ran last emitted to its socket
    viewerSessions,         \* viewerSessions of server.js: its keys (socket ids)
    disconnected,           \* ids of the sockets whose connection has ended
    checkInterval,          \* ScheduleMonitor.checkInterval (timer id; 0 for null, falsy alike)
    liveTimers              \* the interval timers set and not cleared

vars == <<db, contents, now, lastCheckedSchedules, currentActiveSchedule,
          ticks, emitted, result, millis, contentCache, lastContentUpdate,
          calls, connectedUsers, sent, viewerSessions, disconnected,
          checkInterval, liveTimers>>

NULL == "null"

(***************************************************************************)
(* Bounds                                                                  *)
(***************************************************************************)
MaxSchedules == 2
MaxTicks == 2
MaxCalls == 2
MaxTocks == 3
MaxTimers == 2

MinutesPerDay == 24 * 60

(***************************************************************************)
(* moment-timezone: calendar arithmetic                                    *)
(***************************************************************************)
\* UTC offset in minutes of the zones the schema accepts (no DST in any); for a
\* name it has no data for, moment-timezone logs and leaves the moment in UTC.
ZoneOffset(tz) ==
    CASE tz = "Asia/Kolkata" -> 330
      [] tz = "UTC"          -> 0
      [] OTHER               -> 0

\* Month lengths of 2023, the year the model's days fall in.
MonthLen == <<31, 28, 31, 30, 31, 30, 31, 31, 30, 31, 30, 31>>

RECURSIVE DateFrom(_, _)
DateFrom(d, m) ==
    IF m >= 12 \/ d < MonthLen[m]
    THEN <<2023, m, d + 1>>
    ELSE DateFrom(d - MonthLen[m], m + 1)

\* wall clock of instant t in zone tz, in minutes since the epoch's local midnight
Local(t, tz) == t + ZoneOffset(tz)
\* day number (local) of a wall clock
DayOf(l) == l \div MinutesPerDay
\* moment#format('YYYY-MM-DD'): the calendar date as <<year, month, day>>
FormatYMD(t, tz) == DateFrom(DayOf(Local(t, tz)), 1)
\* moment#date(): day of month
DateOfMonth(t, tz) == FormatYMD(t, tz)[3]
\* moment#day(): 0 = Sunday .. 6 = Saturday
WeekDay(t, tz) == DayOf(Local(t, tz)) % 7
\* moment.tz(d, tz).hour(h).minute(m).second(0): the instant of h:m on d's local day
AtTime(t, tz, h, m) == DayOf(Local(t, tz)) * MinutesPerDay + h * 60 + m - ZoneOffset(tz)
\* moment#startOf('day') / endOf('day') (last minute of the local day)
StartOfDay(t, tz) == AtTime(t, tz, 0, 0)
EndOfDay(t, tz) == AtTime(t, tz, 23, 59)
\* JavaScript string comparison of two 'YYYY-MM-DD' strings
StrLess(a, b) ==
    \/ a[1] < b[1]
    \/ a[1] = b[1] /\ a[2] < b[2]
    \/ a[1] = b[1] /\ a[2] = b[2] /\ a[3] < b[3]
\* moment#isBetween(a, b, null, '[]')
IsBetween(t, a, b) == a <= t /\ t <= b

(***************************************************************************)
(* models/Schedule.js                                                      *)
(***************************************************************************)
\* this.timezone || 'Asia/Kolkata'
ScheduleTimezone(s) == IF s.timezone = "" THEN "Asia/Kolkata" ELSE s.timezone

\* endHour < startHour || (endHour === startHour && endMinute <= startMinute)
IsOvernight(s) ==
    \/ s.endTime[1] < s.startTime[1]
    \/ s.endTime[1] = s.startTime[1] /\ s.endTime[2] <= s.startTime[2]

\* today's startTime in the schedule's zone
TodayStart(s, t) ==
    AtTime(t, ScheduleTimezone(s), s.startTime[1], s.startTime[2])

\* today's endTime in the schedule's zone, a day later for an overnight window
TodayEnd(s, t) ==
    AtTime(t, ScheduleTimezone(s), s.endTime[1], s.endTime[2])
        + (IF IsOvernight(s) THEN MinutesPerDay ELSE 0)

\* now.isBetween(todayStart, todayEnd, null, '[]')
IsWithinTimeRange(s, t) == IsBetween(t, TodayStart(s, t), TodayEnd(s, t))

\* currentDate < startDate || currentDate > endDate, on 'YYYY-MM-DD' strings
OutsideDateRange(s, t) ==
    LET tz == ScheduleTimezone(s)
        currentDate == FormatYMD(t, tz)
        startDate == FormatYMD(s.startDate, tz)
        endDate == FormatYMD(s.endDate, tz)
    IN  StrLess(currentDate, startDate) \/ StrLess(endDate, currentDate)

\* a stored time string without ':' splits into an hour only: minute(undefined)
\* is a getter and returns a number, and the .second(0) called on it throws
TimeThrows(s) == Len(s.startTime) < 2 \/ Len(s.endTime) < 2

\* isCurrentlyActive without its isActive test
isCurrentlyActiveAnySwitch(s, t) ==
    IF OutsideDateRange(s, t) THEN FALSE
    ELSE IF TimeThrows(s) THEN FALSE
    ELSE IF s.repeat = "weekly" /\ s.weekDays # {}
         THEN IsWithinTimeRange(s, t) /\ WeekDay(t, ScheduleTimezone(s)) \in s.weekDays
    ELSE IF s.repeat = "daily" THEN IsWithinTimeRange(s, t)
    ELSE IF s.repeat = "monthly"
         THEN /\ IsWithinTimeRange(s, t)
              /\ DateOfMonth(t, ScheduleTimezone(s)) = DateOfMonth(s.startDate, ScheduleTimezone(s))
    ELSE IsWithinTimeRange(s, t)

\* scheduleSchema.methods.isCurrentlyActive of models/Schedule.js, at instant t;
\* its catch block turns an exception into false
isCurrentlyActive(s, t) ==
    IF ~s.isActive THEN FALSE
    ELSE IF OutsideDateRange(s, t) THEN FALSE
    ELSE IF TimeThrows(s) THEN FALSE
    ELSE IF s.repeat = "weekly" /\ s.weekDays # {}
         THEN IsWithinTimeRange(s, t) /\ WeekDay(t, ScheduleTimezone(s)) \in s.weekDays
    ELSE IF s.repeat = "daily" THEN IsWithinTimeRange(s, t)
    ELSE IF s.repeat = "monthly"
         THEN /\ IsWithinTimeRange(s, t)
              /\ DateOfMonth(t, ScheduleTimezone(s)) = DateOfMonth(s.startDate, ScheduleTimezone(s))
    ELSE IsWithinTimeRange(s, t)

\* now.isBefore(d, 'day'): the end of now's day lies before d
IsBeforeDay(t, d, tz) == EndOfDay(t, tz) < d
\* now.isAfter(d, 'day'): d lies before the start of now's day
IsAfterDay(t, d, tz) == d < StartOfDay(t, tz)

\* scheduleSchema.methods.isCurrentlyActive of the later revision of the model
\* (date range only for 'none' and 'daily', empty weekly set never active)
isCurrentlyActiveRepeat(s, t) ==
    LET tz == ScheduleTimezone(s) IN
    IF ~s.isActive THEN FALSE
    ELSE IF s.repeat = "none" /\ OutsideDateRange(s, t) THEN FALSE
    ELSE IF s.repeat = "weekly"
         THEN IF s.weekDays = {} THEN FALSE
              ELSE IsWithinTimeRange(s, t) /\ WeekDay(t, tz) \in s.weekDays
    ELSE IF s.repeat = "daily"
         THEN IF IsBeforeDay(t, s.startDate, tz) \/ IsAfterDay(t, s.endDate, tz)
              THEN FALSE
              ELSE IsWithinTimeRange(s, t)
    ELSE IF s.repeat = "monthly"
         THEN IF DateOfMonth(t, tz) # DateOfMonth(s.startDate, tz)
              THEN FALSE
              ELSE IsWithinTimeRange(s, t)
    ELSE IsWithinTimeRange(s, t)

(***************************************************************************)
(* Repository queries                                                      *)
(***************************************************************************)
\* populate({path: 'content.contentId', match: {status: 'approved'}}): an entry
\* whose content is missing or not approved gets contentId null
Populate(s, cs) ==
    [s EXCEPT !.content =
        [i \in 1..Len(s.content) |->
            [s.content[i] EXCEPT !.contentId =
                IF @ \in DOMAIN cs /\ cs[@] = "approved" THEN @ ELSE NULL]]]

\* Schedule.find({isActive: true}).populate(...).lean()
FindActive(d, cs) ==
    LET act == SelectSeq(d, LAMBDA s : s.isActive)
    IN  [i \in 1..Len(act) |-> Populate(act[i], cs)]

\* the content list without the filter on populated entries
ValidContentUnfiltered(s) == s.content

\* schedule.content.filter(c => c.contentId)
ValidContent(s) == SelectSeq(s.content, LAMBDA c : c.contentId # NULL)

\* the "nothing active" value (null) of the resolvers
NoContent == [schedule |-> NULL, contentId |-> NULL]

\* schedule.priority || 1
PriorityOrOne(s) == IF s.priority = 0 THEN 1 ELSE s.priority

(***************************************************************************)
(* services/scheduleMonitor.js: getCurrentActiveContent                    *)
(***************************************************************************)
\* the for loop: i is the next index, act the index of activeSchedule (0 = null)
RECURSIVE MonitorLoop(_, _, _, _, _)
MonitorLoop(schedules, i, act, bestPriority, t) ==
    IF i > Len(schedules) THEN act
    ELSE LET schedule == schedules[i] IN
         IF Len(schedule.content) = 0 THEN MonitorLoop(schedules, i + 1, act, bestPriority, t)
         ELSE IF Len(ValidContent(schedule)) = 0
              THEN MonitorLoop(schedules, i + 1, act, bestPriority, t)
         ELSE IF isCurrentlyActive(schedule, t)
                 /\ (act = 0 \/ PriorityOrOne(schedule) > bestPriority)
              THEN MonitorLoop(schedules, i + 1, i, PriorityOrOne(schedule), t)
         ELSE MonitorLoop(schedules, i + 1, act, bestPriority, t)

\* getCurrentActiveContent on a fetched, non-empty or empty list of schedules
getCurrentActiveContent(schedules, t) ==
    IF Len(schedules) = 0 THEN NoContent
    ELSE LET act == MonitorLoop(schedules, 1, 0, 0, t) IN
         IF act = 0 THEN NoContent
         ELSE IF ValidContent(schedules[act])[1].contentId = NULL THEN NoContent
         ELSE [schedule |-> schedules[act].id,
               contentId |-> ValidContent(schedules[act])[1].contentId]

(***************************************************************************)
(* models/Schedule.js: findCurrentlyActive                                 *)
(***************************************************************************)
\* the comparator with the priorities the other way round
CompareSchedulesAscending(a, b) ==
    IF b.priority # a.priority THEN a.priority - b.priority
    ELSE b.createdAt - a.createdAt

\* the sort comparator: negative when a goes before b
CompareSchedules(a, b) ==
    IF b.priority # a.priority THEN b.priority - a.priority
    ELSE b.createdAt - a.createdAt

\* Array.prototype.sort is stable: x goes behind every element not after it
RECURSIVE InsertSorted(_, _)
InsertSorted(sorted, x) ==
    IF Len(sorted) = 0 THEN <<x>>
    ELSE IF CompareSchedules(sorted[Len(sorted)], x) <= 0 THEN Append(sorted, x)
    ELSE Append(InsertSorted(SubSeq(sorted, 1, Len(sorted) - 1), x), sorted[Len(sorted)])

RECURSIVE SortSchedules(_)
SortSchedules(q) ==
    IF Len(q) = 0 THEN <<>>
    ELSE InsertSorted(SortSchedules(SubSeq(q, 1, Len(q) - 1)), q[Len(q)])

\* findCurrentlyActive on the fetched list of schedules
findCurrentlyActive(schedules, t) ==
    LET filtered == [i \in 1..Len(schedules) |->
                        [schedules[i] EXCEPT !.content = ValidContent(schedules[i])]]
        kept == SelectSeq(filtered,
                    LAMBDA s : isCurrentlyActive(s, t) /\ Len(s.content) > 0)
    IN  SortSchedules(kept)

\* controllers/scheduleController.js: getCurrentScheduleForViewer, the content
\* it answers with, on the list findCurrentlyActive returned
getCurrentScheduleForViewer(activeSchedules) ==
    IF Len(activeSchedules) = 0 THEN NoContent
    ELSE LET activeSchedule == activeSchedules[1] IN
         IF Len(ValidContent(activeSchedule)) = 0 THEN NoContent
         ELSE [schedule |-> activeSchedule.id,
               contentId |-> ValidContent(activeSchedule)[1].contentId]

\* the snapshot a caller handed to getCurrentActiveContent, after the call, had
\* the resolver taken the entry it surfaces out of the winner's content list
SnapshotAfterResolveConsumed(schedules, t) ==
    LET r == getCurrentActiveContent(schedules, t)
    IN  [i \in 1..Len(schedules) |->
            IF schedules[i].id = r.schedule
            THEN [schedules[i] EXCEPT !.content =
                     SelectSeq(@, LAMBDA c : c.contentId # r.contentId)]
            ELSE schedules[i]]

\* the snapshot a caller handed to getCurrentActiveContent, after the call:
\* filter() and new Schedule(schedule) build new values, nothing is assigned
SnapshotAfterResolve(schedules, t) == schedules

(***************************************************************************)
(* services/contentService.js: fetchCurrentContent                         *)
(***************************************************************************)
\* schedule.timezone || 'UTC'
TimezoneOrUTC(s) == IF s.timezone = "" THEN "UTC" ELSE s.timezone

\* moment.tz(startDate, tz).hour(startHour).minute(startMinute)
ScheduleStart(s) ==
    AtTime(s.startDate, TimezoneOrUTC(s), s.startTime[1], s.startTime[2])

\* moment.tz(endDate, tz).hour(endHour).minute(endMinute), plus a day if overnight
ScheduleEnd(s) ==
    AtTime(s.endDate, TimezoneOrUTC(s), s.endTime[1], s.endTime[2])
        + (IF IsOvernight(s) THEN MinutesPerDay ELSE 0)

\* isWithinDateRange && isWithinTimeRange of fetchCurrentContent
ServiceIsActive(s, t) ==
    /\ IsBetween(t, StartOfDay(s.startDate, TimezoneOrUTC(s)),
                    EndOfDay(s.endDate, TimezoneOrUTC(s)))
    /\ IsBetween(t, ScheduleStart(s), ScheduleEnd(s))

\* fetchCurrentContent rejects: an exception left its loop and was thrown again
Thrown == [schedule |-> "error", contentId |-> NULL]

\* the for loop: the index of activeSchedule (0 = null), or -1 when an
\* iteration throws
RECURSIVE ServiceLoop(_, _, _, _, _)
ServiceLoop(schedules, i, act, bestPriority, t) ==
    IF i > Len(schedules) THEN act
    ELSE LET schedule == schedules[i] IN
         IF Len(schedule.content) = 0 THEN ServiceLoop(schedules, i + 1, act, bestPriority, t)
         ELSE IF Len(ValidContent(schedule)) = 0
              THEN ServiceLoop(schedules, i + 1, act, bestPriority, t)
         ELSE IF TimeThrows(schedule) THEN -1
         ELSE IF ServiceIsActive(schedule, t)
                 /\ (act = 0 \/ PriorityOrOne(schedule) > bestPriority)
              THEN ServiceLoop(schedules, i + 1, i, PriorityOrOne(schedule), t)
         ELSE ServiceLoop(schedules, i + 1, act, bestPriority, t)

\* fetchCurrentContent on the fetched list of schedules
fetchCurrentContent(schedules, t) ==
    IF Len(schedules) = 0 THEN NoContent
    ELSE LET act == ServiceLoop(schedules, 1, 0, 0, t) IN
         IF act = -1 THEN Thrown
         ELSE IF act = 0 THEN NoContent
         ELSE IF ValidContent(schedules[act])[1].contentId = NULL THEN NoContent
         ELSE [schedule |-> schedules[act].id,
               contentId |-> ValidContent(schedules[act])[1].contentId]

(***************************************************************************)
(* Inputs                                                                  *)
(***************************************************************************)
Day(d) == d * MinutesPerDay

\* [startTime, endTime] windows: overnight, office hours, lunch hour
Windows == { <<(<<22, 0>>), (<<2, 0>>)>>,
             <<(<<9, 0>>), (<<17, 0>>)>>,
             <<(<<12, 0>>), (<<13, 0>>)>> }

\* stored [startDate, endDate]: Jan 9 .. Jan 13, Jan 10 only, Jan 10 20:00Z ..
\* Jan 12 20:00Z (a day later in Asia/Kolkata)
DateRanges == { <<Day(8), Day(12)>>,
                <<Day(9), Day(9)>>,
                <<Day(9) + 1200, Day(11) + 1200>> }

\* Mon Jan 9, Tue Jan 10, Wed Jan 11, Fri Jan 13, Sat Jan 14, Fri Feb 10
NowDays == {8, 9, 10, 12, 13, 40}
\* 01:30, 03:00, 04:30 (10:00 IST), 07:00 (12:30 IST), 10:00, 12:30, 20:00, 23:30
NowTimes == {90, 180, 270, 420, 600, 750, 1200, 1410}

Zones == {"Asia/Kolkata", "UTC"}
Repeats == {"none", "daily", "weekly", "monthly"}
WeekDaySets == { {}, {1, 3}, {2, 5} }

Schedule(id, act, tz, range, win, rep, wd, prio, created, cont) ==
    [id |-> id, isActive |-> act, timezone |-> tz,
     startDate |-> range[1], endDate |-> range[2],
     startTime |-> win[1], endTime |-> win[2],
     repeat |-> rep, weekDays |-> wd, priority |-> prio,
     createdAt |-> created, updatedAt |-> created, content |-> cont]

Entry(c, o) == [contentId |-> c, order |-> o]

NoResult ==
    [op |-> "none", active |-> FALSE, repeat |-> FALSE, service |-> FALSE,
     monitor |-> NoContent, given |-> NoContent, model |-> <<>>,
     content |-> NoContent, viewer |-> NoContent,
     snapshot |-> <<>>, again |-> NoContent, modelAgain |-> <<>>]

\* the monitor as constructed, no tick in flight
MonitorIdle ==
    /\ lastCheckedSchedules = <<>>
    /\ currentActiveSchedule = NULL
    /\ ticks = EmptyBag
    /\ emitted = <<>>
    /\ checkInterval = 0
    /\ liveTimers = {}

monVars == <<lastCheckedSchedules, currentActiveSchedule, ticks, emitted,
             checkInterval, liveTimers>>

\* the content service and the socket server as constructed, nobody connected
ServiceIdle ==
    /\ millis = 0
    /\ contentCache = <<>>
    /\ lastContentUpdate = 0
    /\ calls = EmptyBag
    /\ connectedUsers = <<>>
    /\ sent = <<>>
    /\ viewerSessions = {}
    /\ disconnected = {}

svcVars == <<millis, contentCache, lastContentUpdate, calls, connectedUsers, sent,
             viewerSessions, disconnected>>

(***************************************************************************)
(* SpecActive: isCurrentlyActive of one schedule at one instant            *)
(***************************************************************************)
InitActive ==
    /\ \E act \in BOOLEAN, tz \in Zones, range \in DateRanges, win \in Windows,
          rep \in Repeats, wd \in WeekDaySets :
          \* the controller stores weekDays [] unless repeat is 'weekly'
          /\ rep # "weekly" => wd = {}
          /\ db = <<Schedule("s1", act, tz, range, win, rep, wd, 1, 0, <<Entry("c1", 0)>>)>>
    /\ contents = [c \in {"c1"} |-> "approved"]
    /\ \E d \in NowDays, m \in NowTimes : now = Day(d) + m
    /\ MonitorIdle
    /\ ServiceIdle
    /\ result = NoResult

\* the schedule document's isCurrentlyActive() and the service's test, at now
EvalActive ==
    /\ result.op = "none"
    /\ result' = [NoResult EXCEPT !.op = "isCurrentlyActive",
                                  !.active = isCurrentlyActive(db[1], now),
                                  !.repeat = isCurrentlyActiveRepeat(db[1], now),
                                  !.service = ServiceIsActive(db[1], now)]
    /\ UNCHANGED <<db, contents, now, monVars, svcVars>>

NextActive == EvalActive

SpecActive == InitActive /\ [][NextActive]_vars

(***************************************************************************)
(* Claims on isCurrentlyActive (SpecActive)                                *)
(***************************************************************************)
\* C4: a schedule with window 22:00-02:00 whose other gates pass (enabled,
\* today's date inside the date range, recurrence matching today) is active
\* at 23:30, active at 01:30 and not active at 03:00.
C4_OvernightWindow ==
    LET s == db[1]
        l == now + ZoneOffset(s.timezone)
        day == l \div MinutesPerDay
        tod == l % MinutesPerDay
        gates == /\ s.isActive
                 /\ s.repeat = "daily"
                 /\ (s.startDate + ZoneOffset(s.timezone)) \div MinutesPerDay <= day
                 /\ day <= (s.endDate + ZoneOffset(s.timezone)) \div MinutesPerDay
    IN  (result.op = "isCurrentlyActive" /\ gates
            /\ s.startTime = <<22, 0>> /\ s.endTime = <<2, 0>>)
        => /\ (tod = 23 * 60 + 30 => result.active)
           /\ (tod = 1 * 60 + 30 => result.active)
           /\ (tod = 3 * 60 => ~result.active)

\* C7: a weekly schedule is active only on a weekday of its weekday set; with
\* an empty weekday set it is never active.
C7_WeeklyOnlyOnWeekDays ==
    LET s == db[1]
        weekday == ((now + ZoneOffset(s.timezone)) \div MinutesPerDay) % 7
    IN  (result.op = "isCurrentlyActive" /\ s.repeat = "weekly" /\ result.active)
        => weekday \in s.weekDays

\* C8: a weekly schedule has no date-range gate: enabled, on a weekday of its
\* set and between today's startTime and endTime it is active, also on a date
\* before startDate or after endDate.
C8_WeeklyNoDateGate ==
    LET s == db[1]
        l == now + ZoneOffset(s.timezone)
        weekday == (l \div MinutesPerDay) % 7
        tod == l % MinutesPerDay
        startMin == s.startTime[1] * 60 + s.startTime[2]
        endMin == s.endTime[1] * 60 + s.endTime[2]
    IN  (result.op = "isCurrentlyActive" /\ s.repeat = "weekly" /\ s.isActive
            /\ weekday \in s.weekDays
            /\ startMin < endMin /\ startMin <= tod /\ tod <= endMin)
        => result.active

\* C9: a monthly schedule that is enabled and between today's startTime and
\* endTime is active iff today's day of month is startDate's day of month,
\* whatever endDate is.
C9_MonthlyDayOfMonth ==
    LET s == db[1]
        l == now + ZoneOffset(s.timezone)
        tod == l % MinutesPerDay
        startMin == s.startTime[1] * 60 + s.startTime[2]
        endMin == s.endTime[1] * 60 + s.endTime[2]
        today == DateFrom(l \div MinutesPerDay, 1)
        first == DateFrom((s.startDate + ZoneOffset(s.timezone)) \div MinutesPerDay, 1)
    IN  (result.op = "isCurrentlyActive" /\ s.repeat = "monthly" /\ s.isActive
            /\ startMin < endMin /\ startMin <= tod /\ tod <= endMin)
        => (result.active <=> today[3] = first[3])

\* C10: the time window is taken on today's date: a schedule with window
\* 09:00-17:00 and a date range of several days is not active at 20:00 of an
\* in-range day and active at 10:00 of a middle day, for Schedule.isCurrentlyActive
\* and for ContentService.fetchCurrentContent alike.
C10_WindowOnTodaysDate ==
    LET s == db[1]
        l == now + ZoneOffset(s.timezone)
        day == l \div MinutesPerDay
        tod == l % MinutesPerDay
        firstDay == (s.startDate + ZoneOffset(s.timezone)) \div MinutesPerDay
        lastDay == (s.endDate + ZoneOffset(s.timezone)) \div MinutesPerDay
    IN  (result.op = "isCurrentlyActive" /\ s.isActive
            /\ s.repeat \in {"none", "daily"}
            /\ s.startTime = <<9, 0>> /\ s.endTime = <<17, 0>>
            /\ firstDay < lastDay)
        => /\ (firstDay <= day /\ day <= lastDay /\ tod = 20 * 60)
                => (~result.active /\ ~result.service)
           /\ (firstDay < day /\ day < lastDay /\ tod = 10 * 60)
                => (result.active /\ result.service)

\* C21: an enabled schedule with recurrence none or daily is active iff
\* today's date in its zone lies within startDate .. endDate, both boundary
\* days included, and now is inside the time-of-day window (a window whose
\* end is not after its start runs over midnight); none and daily give the
\* same result.
C21_NoneDailyDateRange ==
    LET s == db[1]
        l == now + ZoneOffset(s.timezone)
        day == l \div MinutesPerDay
        tod == l % MinutesPerDay
        firstDay == (s.startDate + ZoneOffset(s.timezone)) \div MinutesPerDay
        lastDay == (s.endDate + ZoneOffset(s.timezone)) \div MinutesPerDay
        startMin == s.startTime[1] * 60 + s.startTime[2]
        endMin == s.endTime[1] * 60 + s.endTime[2]
        inWindow == IF startMin < endMin
                    THEN startMin <= tod /\ tod <= endMin
                    ELSE startMin <= tod \/ tod <= endMin
        expected == firstDay <= day /\ day <= lastDay /\ inWindow
    IN  (result.op = "isCurrentlyActive" /\ s.isActive /\ s.repeat \in {"none", "daily"})
        => /\ result.active <=> expected
           /\ result.repeat <=> expected
           /\ isCurrentlyActive([s EXCEPT !.repeat = "none"], now)
                 <=> isCurrentlyActive([s EXCEPT !.repeat = "daily"], now)
           /\ isCurrentlyActiveRepeat([s EXCEPT !.repeat = "none"], now)
                 <=> isCurrentlyActiveRepeat([s EXCEPT !.repeat = "daily"], now)

(***************************************************************************)
(* SpecResolve: the resolvers on one snapshot at one instant               *)
(***************************************************************************)
Ids == <<"s1", "s2", "s3", "s4">>

\* daily schedules in Asia/Kolkata, Jan 9 .. Jan 13, of every window, priority,
\* switch and content list below
ResolveWindows == { <<(<<9, 0>>), (<<17, 0>>)>>, <<(<<12, 0>>), (<<13, 0>>)>> }
ResolvePriorities == {1, 5, 8}
ResolveContent == { <<Entry("c1", 0)>>, <<Entry("c2", 1), Entry("c1", 0)>> }
\* Jan 10 at 10:00 IST, at 12:30 IST, and Jan 11 at 01:30 IST
ResolveNow == { Day(9) + 270, Day(9) + 420, Day(9) + 1200 }

\* <<isActive, window, priority, content>>
ResolveShapes == BOOLEAN \X ResolveWindows \X ResolvePriorities \X ResolveContent

InitResolve ==
    /\ \E rev \in BOOLEAN, f \in [1..MaxSchedules -> ResolveShapes] :
          db = [i \in 1..MaxSchedules |->
                  Schedule(Ids[i], f[i][1], "Asia/Kolkata", <<Day(8), Day(12)>>,
                           f[i][2], "daily", {}, f[i][3],
                           IF rev THEN MaxSchedules + 1 - i ELSE i, f[i][4])]
    /\ \E st \in {"approved", "pending"} :
          contents = [c \in {"c1", "c2"} |-> IF c = "c1" THEN st ELSE "approved"]
    /\ now \in ResolveNow
    /\ MonitorIdle
    /\ ServiceIdle
    /\ result = NoResult

\* populate() without the isActive filter: a snapshot handed in by a caller
PopulateAll(d, cs) == [i \in 1..Len(d) |-> Populate(d[i], cs)]

\* scheduleMonitor.getCurrentActiveContent(), fetching the schedules itself
ResolveMonitor ==
    /\ result.op = "none"
    /\ result' = [NoResult EXCEPT !.op = "getCurrentActiveContent",
                    !.monitor = getCurrentActiveContent(FindActive(db, contents), now)]
    /\ UNCHANGED <<db, contents, now, monVars, svcVars>>

\* scheduleMonitor.getCurrentActiveContent(snapshot) on a snapshot it is given;
\* an empty snapshot makes it fetch
ResolveGiven ==
    /\ result.op = "none"
    /\ result' = [NoResult EXCEPT !.op = "getCurrentActiveContent(snapshot)",
                    !.given = IF Len(db) # 0
                              THEN getCurrentActiveContent(PopulateAll(db, contents), now)
                              ELSE getCurrentActiveContent(FindActive(db, contents), now),
                    !.snapshot = SnapshotAfterResolve(PopulateAll(db, contents), now)]
    /\ UNCHANGED <<db, contents, now, monVars, svcVars>>

\* the caller hands the same snapshot to getCurrentActiveContent once more
ResolveGivenAgain ==
    /\ result.op = "getCurrentActiveContent(snapshot)"
    /\ result' = [result EXCEPT !.op = "getCurrentActiveContent(snapshot) again",
                    !.again = IF Len(result.snapshot) # 0
                              THEN getCurrentActiveContent(result.snapshot, now)
                              ELSE getCurrentActiveContent(FindActive(db, contents), now)]
    /\ UNCHANGED <<db, contents, now, monVars, svcVars>>

\* Schedule.findCurrentlyActive(): the ids of the returned schedules, in order
ResolveModel ==
    /\ result.op = "none"
    /\ result' = [NoResult EXCEPT !.op = "findCurrentlyActive",
                    !.model = LET r == findCurrentlyActive(FindActive(db, contents), now)
                              IN  [i \in 1..Len(r) |-> r[i].id]]
    /\ UNCHANGED <<db, contents, now, monVars, svcVars>>

\* Schedule.findCurrentlyActive() once more: it fetches the schedules anew
ResolveModelAgain ==
    /\ result.op = "findCurrentlyActive"
    /\ result' = [result EXCEPT !.op = "findCurrentlyActive again",
                    !.modelAgain = LET r == findCurrentlyActive(FindActive(db, contents), now)
                                   IN  [i \in 1..Len(r) |-> r[i].id]]
    /\ UNCHANGED <<db, contents, now, monVars, svcVars>>

\* GET current schedule of the viewer: getCurrentScheduleForViewer
ResolveViewer ==
    /\ result.op = "none"
    /\ result' = [NoResult EXCEPT !.op = "getCurrentScheduleForViewer",
                    !.viewer = getCurrentScheduleForViewer(
                                   findCurrentlyActive(FindActive(db, contents), now))]
    /\ UNCHANGED <<db, contents, now, monVars, svcVars>>

\* contentService.fetchCurrentContent()
ResolveService ==
    /\ result.op = "none"
    /\ result' = [NoResult EXCEPT !.op = "fetchCurrentContent",
                    !.content = fetchCurrentContent(FindActive(db, contents), now)]
    /\ UNCHANGED <<db, contents, now, monVars, svcVars>>

NextResolve ==
    \/ ResolveMonitor
    \/ ResolveGiven
    \/ ResolveGivenAgain
    \/ ResolveModel
    \/ ResolveModelAgain
    \/ ResolveViewer
    \/ ResolveService

SpecResolve == InitResolve /\ [][NextResolve]_vars

(***************************************************************************)
(* SpecCorrupt: the resolvers on a collection holding malformed documents  *)
(***************************************************************************)
\* a time string without ':' ("0900"), and a zone name moment-timezone has no
\* data for
CorruptTime == <<9>>
UnknownZone == "Mars/Phobos"

\* <<timezone, startTime>> of a well-formed schedule, of one with a corrupt
\* startTime and of one with an unparseable timezone
CorruptShapes == { <<"Asia/Kolkata", (<<9, 0>>)>>,
                   <<"Asia/Kolkata", CorruptTime>>,
                   <<UnknownZone, (<<9, 0>>)>> }

\* Jan 10 at 10:00 IST (04:30 UTC), 12:30 IST (07:00 UTC), 15:30 IST (10:00 UTC)
CorruptNow == { Day(9) + 270, Day(9) + 420, Day(9) + 600 }

\* enabled daily schedules 09:00-17:00 (or corrupt), Jan 9 .. Jan 13
InitCorrupt ==
    /\ \E f \in [1..MaxSchedules -> CorruptShapes \X ResolvePriorities] :
          db = [i \in 1..MaxSchedules |->
                  Schedule(Ids[i], TRUE, f[i][1][1], <<Day(8), Day(12)>>,
                           <<f[i][1][2], (<<17, 0>>)>>, "daily", {}, f[i][2],
                           i, <<Entry("c1", 0)>>)]
    /\ contents = [c \in {"c1", "c2"} |-> "approved"]
    /\ now \in CorruptNow
    /\ MonitorIdle
    /\ ServiceIdle
    /\ result = NoResult

SpecCorrupt == InitCorrupt /\ [][NextResolve]_vars

(***************************************************************************)
(* Claims on resolution (SpecResolve)                                      *)
(***************************************************************************)
\* some entry of the stored content list refers to an existing, approved content
HasApprovedContent(s) ==
    \E i \in 1..Len(s.content) :
        /\ s.content[i].contentId \in DOMAIN contents
        /\ contents[s.content[i].contentId] = "approved"

\* the schedule passes every gate of the model document at the instant now
\* and has something to play
Eligible(s) == s.isActive /\ isCurrentlyActive(s, now) /\ HasApprovedContent(s)

\* positions of the eligible schedules of the collection
EligibleSet == { i \in 1..Len(db) : Eligible(db[i]) }

\* id names an eligible schedule whose priority no eligible schedule exceeds
IsBestEligible(id) ==
    \E i \in EligibleSet :
        /\ db[i].id = id
        /\ \A j \in EligibleSet : db[j].priority <= db[i].priority

\* C1: the winner of getCurrentActiveContent and the first schedule of
\* findCurrentlyActive is an eligible schedule of maximal priority among the
\* eligible ones, in whatever order the collection returns the schedules;
\* nothing is chosen only when no schedule is eligible.
C1_WinnerHasMaxPriority ==
    /\ result.op = "getCurrentActiveContent"
        => IF EligibleSet = {} THEN result.monitor = NoContent
           ELSE IsBestEligible(result.monitor.schedule)
    /\ result.op = "getCurrentActiveContent(snapshot)"
        => IF EligibleSet = {} THEN result.given = NoContent
           ELSE IsBestEligible(result.given.schedule)
    /\ result.op = "findCurrentlyActive"
        => IF EligibleSet = {} THEN result.model = <<>>
           ELSE Len(result.model) > 0 /\ IsBestEligible(result.model[1])

\* eligible schedules of priority 5 and, later in the collection, 8: the 8 wins
C1_Witness ==
    /\ result.op = "getCurrentActiveContent"
    /\ \E i, j \in EligibleSet :
          /\ i < j
          /\ db[i].priority = 5
          /\ db[j].priority = 8
          /\ result.monitor.schedule = db[j].id

\* C2: no resolver ever selects a schedule whose isActive flag is false.
C2_NeverSelectsDisabled ==
    \A i \in 1..Len(db) :
        ~db[i].isActive =>
            /\ result.monitor.schedule # db[i].id
            /\ result.given.schedule # db[i].id
            /\ result.content.schedule # db[i].id
            /\ \A k \in 1..Len(result.model) : result.model[k] # db[i].id

\* a disabled schedule with the highest priority, inside its dates and window
\* and with approved content, is in the snapshot handed to the monitor, and an
\* enabled schedule of lower priority is chosen
C2_Witness ==
    /\ result.op = "getCurrentActiveContent(snapshot)"
    /\ result.given # NoContent
    /\ \E i \in 1..Len(db) :
          /\ ~db[i].isActive
          /\ isCurrentlyActive([db[i] EXCEPT !.isActive = TRUE], now)
          /\ HasApprovedContent(db[i])
          /\ \A j \in 1..Len(db) : j # i => db[j].priority < db[i].priority

\* C3: no resolver selects a schedule without approved, existing content, and
\* such a schedule never keeps an eligible schedule from being chosen.
C3_NeverSelectsWithoutContent ==
    /\ \A i \in 1..Len(db) :
          ~HasApprovedContent(db[i]) =>
              /\ result.monitor.schedule # db[i].id
              /\ result.given.schedule # db[i].id
              /\ \A k \in 1..Len(result.model) : result.model[k] # db[i].id
    /\ EligibleSet # {} =>
          /\ result.op = "getCurrentActiveContent" => result.monitor # NoContent
          /\ result.op = "getCurrentActiveContent(snapshot)" => result.given # NoContent
          /\ result.op = "findCurrentlyActive" => result.model # <<>>

\* an enabled schedule of priority 8 inside its window has only unapproved
\* content; the eligible schedule of lower priority is chosen
C3_Witness ==
    /\ result.op = "getCurrentActiveContent"
    /\ \E i \in 1..Len(db), j \in EligibleSet :
          /\ db[i].isActive /\ isCurrentlyActive(db[i], now)
          /\ ~HasApprovedContent(db[i])
          /\ db[i].priority = 8
          /\ db[j].priority < 8
          /\ i < j
          /\ result.monitor.schedule = db[j].id

\* id names an eligible schedule of the greatest priority among the eligible
\* ones and, among those of that priority, of the greatest createdAt
IsNewestBestEligible(id) ==
    \E i \in EligibleSet :
        /\ db[i].id = id
        /\ \A j \in EligibleSet :
              \/ db[j].priority < db[i].priority
              \/ db[j].priority = db[i].priority /\ db[j].createdAt <= db[i].createdAt

\* C11: when several eligible schedules share the highest priority, the winner
\* of getCurrentActiveContent and the first schedule of findCurrentlyActive is
\* the one created last, in whatever order the collection returns them.
C11_TieBreakMostRecent ==
    EligibleSet # {} =>
        /\ result.op = "getCurrentActiveContent"
              => IsNewestBestEligible(result.monitor.schedule)
        /\ result.op = "getCurrentActiveContent(snapshot)"
              => IsNewestBestEligible(result.given.schedule)
        /\ result.op = "findCurrentlyActive"
              => Len(result.model) > 0 /\ IsNewestBestEligible(result.model[1])

ApprovedEntries(s) ==
    { k \in 1..Len(s.content) :
        /\ s.content[k].contentId \in DOMAIN contents
        /\ contents[s.content[k].contentId] = "approved" }

\* c is the content of the approved entry of s with the smallest order
IsSmallestOrderContent(s, c) ==
    \E k \in ApprovedEntries(s) :
        /\ s.content[k].contentId = c
        /\ \A l \in ApprovedEntries(s) : s.content[k].order <= s.content[l].order

\* C20: the content surfaced for the winning schedule, by getCurrentActiveContent
\* and by getCurrentScheduleForViewer, is the approved entry with the smallest
\* order, wherever the entry stands in the stored content array.
C20_SmallestOrderSurfaced ==
    \A i \in 1..Len(db) :
        /\ (result.op = "getCurrentActiveContent" /\ result.monitor.schedule = db[i].id)
              => IsSmallestOrderContent(db[i], result.monitor.contentId)
        /\ (result.op = "getCurrentScheduleForViewer" /\ result.viewer.schedule = db[i].id)
              => IsSmallestOrderContent(db[i], result.viewer.contentId)

\* the stored schedule has HH:MM times and a zone moment-timezone knows
WellFormed(s) ==
    /\ Len(s.startTime) = 2
    /\ Len(s.endTime) = 2
    /\ s.timezone \in Zones

\* the well-formed schedules of the collection
WellFormedOnly == SelectSeq(db, WellFormed)

\* C15: a malformed stored schedule (corrupt time string, unparseable
\* timezone) is skipped by every resolver: each returns the winner it returns
\* on the well-formed schedules alone.
C15_MalformedScheduleSkipped ==
    /\ result.op = "getCurrentActiveContent"
          => result.monitor = getCurrentActiveContent(FindActive(WellFormedOnly, contents), now)
    /\ result.op = "findCurrentlyActive"
          => LET r == findCurrentlyActive(FindActive(WellFormedOnly, contents), now)
             IN  IF Len(r) = 0 THEN result.model = <<>>
                 ELSE Len(result.model) > 0 /\ result.model[1] = r[1].id
    /\ result.op = "fetchCurrentContent"
          => result.content = fetchCurrentContent(FindActive(WellFormedOnly, contents), now)

\* C26: the three resolvers agree: on every snapshot and instant
\* getCurrentActiveContent, getCurrentScheduleForViewer (through
\* findCurrentlyActive) and fetchCurrentContent return the same winning schedule
\* and content item, or all return nothing active.
C26_ResolversAgree ==
    LET snapshot == FindActive(db, contents)
        monitor == getCurrentActiveContent(snapshot, now)
        viewer == getCurrentScheduleForViewer(findCurrentlyActive(snapshot, now))
        service == fetchCurrentContent(snapshot, now)
    IN  /\ result.op = "getCurrentActiveContent"
             => result.monitor = viewer /\ result.monitor = service
        /\ result.op = "getCurrentScheduleForViewer"
             => result.viewer = monitor /\ result.viewer = service
        /\ result.op = "fetchCurrentContent"
             => result.content = monitor /\ result.content = viewer

(***************************************************************************)
(* controllers/scheduleController.js: updateSchedule                       *)
(***************************************************************************)
\* Math.min(Math.max(parseInt(req.body.priority) || 1, 1), 10)
ClampPriority(req) ==
    IF "priority" \notin DOMAIN req \/ req.priority = 0 THEN 1
    ELSE IF req.priority < 1 THEN 1
    ELSE IF req.priority > 10 THEN 10
    ELSE req.priority

\* contentArray: from req.body.content, else from req.body.contentIds, else []
ContentArray(req) ==
    IF "content" \in DOMAIN req THEN req.content
    ELSE IF "contentIds" \in DOMAIN req
         THEN [k \in 1..Len(req.contentIds) |-> Entry(req.contentIds[k], k - 1)]
    ELSE <<>>

\* Content.find({_id: {$in: contentIds}, status: 'approved'}).length === contentIds.length
ContentIsApproved(arr, cs) ==
    Cardinality({ arr[k].contentId : k \in 1..Len(arr) }
                    \cap { c \in DOMAIN cs : cs[c] = "approved" }) = Len(arr)

\* updateData applied by findByIdAndUpdate: content, weekDays and priority are
\* always set, the other fields only when the request has them
ApplyUpdate(s, req, t) ==
    LET set(f, old) == IF f \in DOMAIN req THEN req[f] ELSE old
    IN  [s EXCEPT !.content = ContentArray(req),
                  !.startDate = set("startDate", @),
                  !.endDate = set("endDate", @),
                  !.startTime = set("startTime", @),
                  !.endTime = set("endTime", @),
                  !.timezone = set("timezone", @),
                  !.repeat = set("repeat", @),
                  !.weekDays = IF "repeat" \in DOMAIN req /\ req.repeat = "weekly"
                               THEN (IF "weekDays" \in DOMAIN req THEN req.weekDays ELSE {})
                               ELSE {},
                  !.priority = ClampPriority(req),
                  !.isActive = set("isActive", @),
                  !.updatedAt = t]

\* PUT /api/schedules/:id on the i-th stored schedule
updateSchedule(i, req) ==
    /\ i \in 1..Len(db)
    /\ IF Len(ContentArray(req)) > 0 /\ ~ContentIsApproved(ContentArray(req), contents)
       THEN db' = db
       ELSE db' = [db EXCEPT ![i] = ApplyUpdate(@, req, now)]
    /\ UNCHANGED <<contents, now, monVars, result, svcVars>>

\* scheduleData of createSchedule: the document Schedule.create is given
NewSchedule(id, req, t) ==
    Schedule(id,
             IF "isActive" \in DOMAIN req THEN req.isActive ELSE TRUE,
             IF "timezone" \in DOMAIN req THEN req.timezone ELSE "Asia/Kolkata",
             <<req.startDate, req.endDate>>,
             <<req.startTime, req.endTime>>,
             IF "repeat" \in DOMAIN req THEN req.repeat ELSE "none",
             IF "repeat" \in DOMAIN req /\ req.repeat = "weekly"
             THEN (IF "weekDays" \in DOMAIN req THEN req.weekDays ELSE {})
             ELSE {},
             ClampPriority(req), t, ContentArray(req))

\* the pre('save') middleware lets the document through
PreSaveAccepts(s) ==
    /\ s.endDate >= s.startDate
    /\ s.timezone \in Zones
    /\ Len(s.startTime) = 2 /\ Len(s.endTime) = 2
    /\ Len(s.content) > 0
    /\ s.repeat = "weekly" => s.weekDays # {}

\* an _id no stored schedule has
FreshId == Ids[CHOOSE k \in 1..Len(Ids) :
                /\ \A i \in 1..Len(db) : db[i].id # Ids[k]
                /\ \A l \in 1..(k - 1) : \E i \in 1..Len(db) : db[i].id = Ids[l]]

\* POST /api/schedules: 400 on unapproved content, 500 when Schedule.create
\* rejects, else the document is stored
createSchedule(req) ==
    /\ Len(db) < MaxSchedules
    /\ IF Len(ContentArray(req)) > 0 /\ ~ContentIsApproved(ContentArray(req), contents)
       THEN db' = db
       ELSE IF ~PreSaveAccepts(NewSchedule(FreshId, req, now))
       THEN db' = db
       ELSE db' = Append(db, NewSchedule(FreshId, req, now))
    /\ UNCHANGED <<contents, now, monVars, result, svcVars>>

\* DELETE /api/schedules/:id on the i-th stored schedule: findByIdAndDelete
deleteSchedule(i) ==
    /\ i \in 1..Len(db)
    /\ db' = [k \in 1..(Len(db) - 1) |-> IF k < i THEN db[k] ELSE db[k + 1]]
    /\ UNCHANGED <<contents, now, monVars, result, svcVars>>

(***************************************************************************)
(* SpecCrud: the schedules collection under create, update and delete      *)
(***************************************************************************)
\* the fields every create form sends
CreateBase ==
    [startDate |-> Day(8), endDate |-> Day(12),
     startTime |-> <<9, 0>>, endTime |-> <<17, 0>>]

\* what a form may send besides: content by id, content with its own order,
\* the switch, a weekly repeat with or without its days
BodyParts ==
    { <<>>,
      [contentIds |-> <<"c1">>],
      [contentIds |-> <<"c1", "c2">>],
      [content |-> <<Entry("c1", 1), Entry("c3", 0)>>],
      [contentIds |-> <<"c1">>, isActive |-> FALSE],
      [contentIds |-> <<"c1">>, repeat |-> "weekly", weekDays |-> {1, 3}],
      [contentIds |-> <<"c1">>, repeat |-> "weekly"],
      [isActive |-> FALSE],
      [priority |-> 7] }

\* c1 and c3 are approved, c2 is waiting for approval
InitCrud ==
    /\ db = <<>>
    /\ contents = [c \in {"c1", "c2", "c3"} |-> IF c = "c2" THEN "pending" ELSE "approved"]
    /\ now = Day(9) + 270
    /\ MonitorIdle
    /\ ServiceIdle
    /\ result = NoResult

CreateSchedule == \E body \in BodyParts : createSchedule(CreateBase @@ body)

UpdateStored == \E i \in 1..Len(db), body \in BodyParts : updateSchedule(i, body)

DeleteSchedule == \E i \in 1..Len(db) : deleteSchedule(i)

NextCrud == CreateSchedule \/ UpdateStored \/ DeleteSchedule

SpecCrud == InitCrud /\ [][NextCrud]_vars

C28_UpdateKeepsOmittedFields ==
    \A i \in 1..Len(db), req \in BodyParts :
        LET after == ApplyUpdate(db[i], req, now)
            accepted == Len(ContentArray(req)) = 0
                           \/ ContentIsApproved(ContentArray(req), contents)
        IN  accepted =>
               /\ "priority" \notin DOMAIN req => after.priority = db[i].priority
               /\ {"content", "contentIds"} \cap DOMAIN req = {}
                     => after.content = db[i].content
               /\ "weekDays" \notin DOMAIN req => after.weekDays = db[i].weekDays

(***************************************************************************)
(* services/scheduleMonitor.js: checkScheduleChanges                       *)
(***************************************************************************)
\* the loop over the fetched schedules: the watermarks and hasChanges after it
RECURSIVE CheckUpdates(_, _, _, _, _)
CheckUpdates(schedules, i, checked, hasChanges, currentTime) ==
    IF i > Len(schedules) THEN [checked |-> checked, hasChanges |-> hasChanges]
    ELSE LET schedule == schedules[i] IN
         IF schedule.id \notin DOMAIN checked \/ schedule.updatedAt > checked[schedule.id]
         THEN CheckUpdates(schedules, i + 1,
                  [k \in DOMAIN checked \cup {schedule.id} |->
                      IF k = schedule.id THEN currentTime ELSE checked[k]],
                  TRUE, currentTime)
         ELSE CheckUpdates(schedules, i + 1, checked, hasChanges, currentTime)

\* a tick between two of its awaits; fetchFailed records that the find of its
\* getCurrentActiveContent was rejected
Tick(pc, hasChanges, currentContent, count) ==
    [pc |-> pc, hasChanges |-> hasChanges, currentContent |-> currentContent,
     activeSchedules |-> count, fetchFailed |-> FALSE]

\* the cron job or the interval timer calls checkScheduleChanges: the find is issued
TickStart ==
    /\ BagCardinality(ticks) < MaxTicks
    /\ ticks' = ticks (+) SetToBag({Tick("find", FALSE, NoContent, 0)})
    /\ UNCHANGED <<db, contents, now, lastCheckedSchedules, currentActiveSchedule,
                   emitted, result, svcVars,
                   checkInterval, liveTimers>>

\* the find resolves: watermark loop, then getCurrentActiveContent(activeSchedules),
\* which resolves the winner at once unless the list is empty and it fetches again
TickFetched ==
    \E tk \in BagToSet(ticks) :
        /\ tk.pc = "find"
        /\ LET activeSchedules == FindActive(db, contents)
               upd == CheckUpdates(activeSchedules, 1, lastCheckedSchedules, FALSE, now)
           IN  /\ lastCheckedSchedules' = upd.checked
               /\ ticks' = (ticks (-) SetToBag({tk})) (+)
                     SetToBag({ IF Len(activeSchedules) # 0
                                THEN Tick("compare", upd.hasChanges,
                                          getCurrentActiveContent(activeSchedules, now),
                                          Len(activeSchedules))
                                ELSE Tick("find2", upd.hasChanges, NoContent, 0) })
        /\ UNCHANGED <<db, contents, now, currentActiveSchedule, emitted, result, svcVars,
                       checkInterval, liveTimers>>

\* the find rejects: the catch block logs, the tick is over
TickFetchFails ==
    \E tk \in BagToSet(ticks) :
        /\ tk.pc = "find"
        /\ ticks' = ticks (-) SetToBag({tk})
        /\ UNCHANGED <<db, contents, now, lastCheckedSchedules, currentActiveSchedule,
                       emitted, result, svcVars,
                       checkInterval, liveTimers>>

\* the find of getCurrentActiveContent resolves
TickFetchedAgain ==
    \E tk \in BagToSet(ticks) :
        /\ tk.pc = "find2"
        /\ ticks' = (ticks (-) SetToBag({tk})) (+)
              SetToBag({ Tick("compare", tk.hasChanges,
                              getCurrentActiveContent(FindActive(db, contents), now), 0) })
        /\ UNCHANGED <<db, contents, now, lastCheckedSchedules, currentActiveSchedule,
                       emitted, result, svcVars,
                       checkInterval, liveTimers>>

\* the find of getCurrentActiveContent rejects: its catch block returns null
TickFetchAgainFails ==
    \E tk \in BagToSet(ticks) :
        /\ tk.pc = "find2"
        /\ ticks' = (ticks (-) SetToBag({tk})) (+)
              SetToBag({ [Tick("compare", tk.hasChanges, NoContent, 0)
                            EXCEPT !.fetchFailed = TRUE] })
        /\ UNCHANGED <<db, contents, now, lastCheckedSchedules, currentActiveSchedule,
                       emitted, result, svcVars,
                       checkInterval, liveTimers>>

\* io.to('viewers').emit('content-refresh', ...), when the winner's id changed
ContentRefresh(currentContent, oldActiveScheduleId) ==
    IF currentContent.schedule # oldActiveScheduleId
    THEN << [name |-> "content-refresh", newContent |-> currentContent,
             activeSchedules |-> 0, currentlyActive |-> currentContent # NoContent] >>
    ELSE <<>>

\* the status update of a monitor that polls without comparing
StatusUpdateAlways(tk, oldActiveScheduleId) ==
    << [name |-> "schedule-status-update", newContent |-> NoContent,
        activeSchedules |-> tk.activeSchedules,
        currentlyActive |-> tk.currentContent # NoContent] >>

\* a status update that is sent only along with a change of winner
StatusUpdateOnWinnerChange(tk, oldActiveScheduleId) ==
    IF tk.currentContent.schedule # oldActiveScheduleId
    THEN << [name |-> "schedule-status-update", newContent |-> NoContent,
             activeSchedules |-> tk.activeSchedules,
             currentlyActive |-> tk.currentContent # NoContent] >>
    ELSE <<>>

\* io.emit('schedule-status-update', ...), when hasChanges
StatusUpdate(tk, oldActiveScheduleId) ==
    IF tk.hasChanges \/ tk.currentContent.schedule # oldActiveScheduleId
    THEN << [name |-> "schedule-status-update", newContent |-> NoContent,
             activeSchedules |-> tk.activeSchedules,
             currentlyActive |-> tk.currentContent # NoContent] >>
    ELSE <<>>

\* the comparison without the assignment to this.currentActiveSchedule
NextActiveScheduleKept(currentContent, oldActiveScheduleId) == oldActiveScheduleId

\* this.currentActiveSchedule after the comparison
NextActiveSchedule(currentContent, oldActiveScheduleId) ==
    IF currentContent.schedule # oldActiveScheduleId
    THEN currentContent.schedule
    ELSE oldActiveScheduleId

\* the tick resumes after awaiting getCurrentActiveContent: compare and emit
TickCompare ==
    \E tk \in BagToSet(ticks) :
        /\ tk.pc = "compare"
        /\ currentActiveSchedule' =
              NextActiveSchedule(tk.currentContent, currentActiveSchedule)
        /\ emitted' = ContentRefresh(tk.currentContent, currentActiveSchedule)
                        \o StatusUpdate(tk, currentActiveSchedule)
        /\ ticks' = ticks (-) SetToBag({tk})
        /\ UNCHANGED <<db, contents, now, lastCheckedSchedules, result, svcVars,
                       checkInterval, liveTimers>>

(***************************************************************************)
(* Spec: the monitor running against a collection that is being edited     *)
(***************************************************************************)
\* Jan 10 at 10:00, 12:30 and 18:00 IST
Instants == { Day(9) + 270, Day(9) + 420, Day(9) + 750 }

\* the i-th schedule: office hours (odd i) or lunch hour (even i), priority 1, 5, 9
InitialSchedule(i, on) ==
    Schedule(Ids[i], on, "Asia/Kolkata", <<Day(8), Day(12)>>,
             IF i % 2 = 1 THEN <<(<<9, 0>>), (<<17, 0>>)>> ELSE <<(<<12, 0>>), (<<13, 0>>)>>,
             "daily", {}, 4 * i - 3, 0, <<Entry("c1", 0)>>)

\* the edit form of the lunch-hour schedule, every field of the form sent:
\* <<position in the collection, request body>>
Requests ==
    { <<2, [isActive |-> b, priority |-> 5, contentIds |-> <<"c1">>]>> : b \in BOOLEAN }

Init ==
    /\ \E on \in [1..MaxSchedules -> BOOLEAN] :
          db = [i \in 1..MaxSchedules |-> InitialSchedule(i, on[i])]
    /\ contents = [c \in {"c1", "c2"} |-> "approved"]
    /\ now = Day(9) + 270
    /\ MonitorIdle
    /\ ServiceIdle
    /\ result = NoResult

\* time passes
Advance ==
    /\ \E t \in Instants : t > now /\ now' = t
    /\ UNCHANGED <<db, contents, monVars, result, svcVars>>

UpdateSchedule == \E r \in Requests : updateSchedule(r[1], r[2])

Next ==
    \/ TickStart
    \/ TickFetched
    \/ TickFetchFails
    \/ TickFetchedAgain
    \/ TickFetchAgainFails
    \/ TickCompare
    \/ Advance
    \/ UpdateSchedule

Spec == Init /\ [][Next]_vars

(***************************************************************************)
(* Claims on checkScheduleChanges (Spec)                                   *)
(***************************************************************************)
\* the step is the end of tick tk: it resumes after getCurrentActiveContent,
\* compares, emits and returns
IsCompareStep(tk) ==
    /\ tk \in BagToSet(ticks)
    /\ tk.pc = "compare"
    /\ ticks' = ticks (-) SetToBag({tk})

\* the step is the arrival of the schedules tick tk asked for, nk is the tick after it
IsFetchedStep(tk, nk) ==
    /\ tk \in BagToSet(ticks)
    /\ tk.pc = "find"
    /\ nk \in BagToSet(ticks')
    /\ nk.pc \in {"compare", "find2"}
    /\ ticks' = (ticks (-) SetToBag({tk})) (+) SetToBag({nk})

\* some enabled schedule was modified after its watermark was recorded, or has none
SomeScheduleEdited ==
    \E i \in 1..Len(db) :
        /\ db[i].isActive
        /\ \/ db[i].id \notin DOMAIN lastCheckedSchedules
           \/ db[i].updatedAt > lastCheckedSchedules[db[i].id]

\* C13: no two executions of checkScheduleChanges are in progress at the same
\* time on the monitor.
C13_NoConcurrentTicks == BagCardinality(ticks) <= 1

\* C5: a tick that fetched no schedule modified after its recorded watermark (a
\* schedule without a recorded watermark counts as modified) and that resolves
\* the winner the monitor already holds emits no notification at all.
C5_NoNotificationWithoutChange ==
    [][ /\ \A tk \in BagToSet(ticks), nk \in BagToSet(ticks') :
              IsFetchedStep(tk, nk) => (nk.hasChanges <=> SomeScheduleEdited)
        /\ \A tk \in BagToSet(ticks) :
              (/\ IsCompareStep(tk)
               /\ ~tk.hasChanges
               /\ tk.currentContent.schedule = currentActiveSchedule)
              => emitted' = <<>>
      ]_vars

\* a tick ran to its end without emitting while a winner is held, every enabled
\* schedule has its watermark and no tick is in flight
C5_Witness ==
    /\ emitted = <<>>
    /\ currentActiveSchedule # NULL
    /\ ticks = EmptyBag
    /\ ~SomeScheduleEdited

\* C6: a tick that resolves a winner other than the one the monitor holds emits
\* exactly one 'content-refresh', carrying the resolved content (or nothing
\* active), and leaves the resolved winner's id in currentActiveSchedule.
C6_OneContentRefreshPerChange ==
    [][ \A tk \in BagToSet(ticks) :
            (IsCompareStep(tk) /\ tk.currentContent.schedule # currentActiveSchedule)
            => /\ Cardinality({ k \in 1..Len(emitted') :
                                  emitted'[k].name = "content-refresh" }) = 1
               /\ \A k \in 1..Len(emitted') :
                     emitted'[k].name = "content-refresh"
                        => emitted'[k].newContent = tk.currentContent
               /\ currentActiveSchedule' = tk.currentContent.schedule
      ]_vars

\* the last tick announced a winner other than the first schedule and the
\* monitor holds it
C6_Witness ==
    /\ currentActiveSchedule \notin {NULL, "s1"}
    /\ \E k \in 1..Len(emitted) :
          /\ emitted[k].name = "content-refresh"
          /\ emitted[k].newContent.schedule = currentActiveSchedule

\* the step is the arrival of the schedules getCurrentActiveContent asked for on
\* behalf of tick tk, or the failure of that find; nk is the tick after it
IsFetchedAgainStep(tk, nk) ==
    /\ tk \in BagToSet(ticks)
    /\ tk.pc = "find2"
    /\ nk \in BagToSet(ticks')
    /\ nk.pc = "compare"
    /\ ticks' = (ticks (-) SetToBag({tk})) (+) SetToBag({nk})

\* C22: a tick that fetched a schedule whose updatedAt exceeds its recorded
\* watermark emits 'schedule-status-update' when it ends, whether or not the
\* winner changed, and the watermark it records for every such schedule is not
\* earlier than the schedule's updatedAt.
C22_StatusUpdateOnModification ==
    [][ /\ \A tk \in BagToSet(ticks), nk \in BagToSet(ticks') :
              IsFetchedStep(tk, nk) =>
                 \A i \in 1..Len(db) :
                    (/\ db[i].isActive
                     /\ db[i].id \in DOMAIN lastCheckedSchedules
                     /\ db[i].updatedAt > lastCheckedSchedules[db[i].id])
                    => /\ nk.hasChanges
                       /\ lastCheckedSchedules'[db[i].id] >= db[i].updatedAt
        /\ \A tk \in BagToSet(ticks), nk \in BagToSet(ticks') :
              IsFetchedAgainStep(tk, nk) => nk.hasChanges = tk.hasChanges
        /\ \A tk \in BagToSet(ticks) :
              (IsCompareStep(tk) /\ tk.hasChanges)
              => \E k \in 1..Len(emitted') : emitted'[k].name = "schedule-status-update"
      ]_vars

\* the last tick sent a status update and nothing else: the winner it resolved
\* was already held, the second schedule was edited after the first schedule's
\* watermark was recorded, and its own watermark is not earlier than the edit
C22_Witness ==
    /\ ticks = EmptyBag
    /\ Len(emitted) = 1
    /\ emitted[1].name = "schedule-status-update"
    /\ currentActiveSchedule # NULL
    /\ db[2].isActive
    /\ {"s1", "s2"} \subseteq DOMAIN lastCheckedSchedules
    /\ db[2].updatedAt > lastCheckedSchedules["s1"]
    /\ lastCheckedSchedules["s2"] >= db[2].updatedAt

(***************************************************************************)
(* services/contentService.js: getCurrentContent, and the socket handlers  *)
(* of server.js that reach it                                              *)
(***************************************************************************)
\* this.cacheTimeout, in milliseconds
cacheTimeout == 30000

MillisPerMinute == 60 * 1000

\* Date.now()
DateNow == now * MillisPerMinute + millis

\* this.lastContentUpdate && (now - this.lastContentUpdate) < this.cacheTimeout
CacheFresh(t) == lastContentUpdate # 0 /\ t - lastContentUpdate < cacheTimeout

\* the cached entry is returned: the cache is fresh and get('current') is truthy
CacheHit(t) ==
    /\ CacheFresh(t)
    /\ "current" \in DOMAIN contentCache
    /\ contentCache["current"] # NoContent

\* a catch block that throws the error again
CaughtValueRethrown == Thrown

\* catch (error) { ...; return null; } of getCurrentContent
CaughtValue == NoContent

\* socket.emit('current-content-response', ...) for the value the awaited
\* getCurrentContent settled with: the try branch, or the catch branch
Answer(sock, v) ==
    IF v = Thrown
    THEN [name |-> "current-content-response", socket |-> sock,
          success |-> FALSE, data |-> NoContent]
    ELSE [name |-> "current-content-response", socket |-> sock,
          success |-> TRUE, data |-> v]

\* socket.emit('error', { message: 'Unauthorized' })
Unauthorized(sock) ==
    [name |-> "error", socket |-> sock, success |-> FALSE, data |-> NoContent]

\* socket.emit('content-refresh', ...) of join-room
Checking(sock) ==
    [name |-> "content-refresh", socket |-> sock, success |-> TRUE, data |-> NoContent]

\* a handler awaiting the fetchCurrentContent of its getCurrentContent;
\* t is the Date.now() its getCurrentContent read
Call(sock, t) == [socket |-> sock, now |-> t]

\* the value getCurrentContent returned on the path named by op
Returned(op, v) == [NoResult EXCEPT !.op = op, !.content = v]

\* socket.on('join-room'): the socket is registered with the role it names
JoinRoom(sock, role) ==
    /\ connectedUsers' = [k \in DOMAIN connectedUsers \cup {sock} |->
                             IF k = sock THEN role ELSE connectedUsers[k]]
    /\ viewerSessions' = IF role = "VIEWER" THEN viewerSessions \cup {sock}
                         ELSE viewerSessions
    /\ sent' = IF role = "VIEWER" THEN <<Checking(sock)>> ELSE <<>>
    /\ UNCHANGED <<db, contents, now, monVars, result, millis, contentCache,
                   lastContentUpdate, calls, disconnected>>

\* socket.on('disconnect'): a registered socket is removed from connectedUsers,
\* and from viewerSessions if its registered role is VIEWER
Disconnect(sock) ==
    /\ sock \notin disconnected
    /\ disconnected' = disconnected \cup {sock}
    /\ IF sock \in DOMAIN connectedUsers
       THEN /\ viewerSessions' = IF connectedUsers[sock] = "VIEWER"
                                 THEN viewerSessions \ {sock}
                                 ELSE viewerSessions
            /\ connectedUsers' = [k \in DOMAIN connectedUsers \ {sock} |->
                                     connectedUsers[k]]
       ELSE UNCHANGED <<connectedUsers, viewerSessions>>
    /\ sent' = <<>>
    /\ UNCHANGED <<db, contents, now, monVars, result, millis, contentCache,
                   lastContentUpdate, calls>>

\* socket.on('request-current-content'): Unauthorized unless the socket is a
\* viewer; else getCurrentContent, which answers from the cache or starts
\* fetchCurrentContent and awaits it
RequestCurrentContent(sock) ==
    IF sock \notin DOMAIN connectedUsers \/ connectedUsers[sock] # "VIEWER"
    THEN /\ sent' = <<Unauthorized(sock)>>
         /\ UNCHANGED <<db, contents, now, monVars, result, millis, contentCache,
                        lastContentUpdate, calls, connectedUsers,
                        viewerSessions, disconnected>>
    ELSE IF CacheHit(DateNow)
    THEN /\ sent' = <<Answer(sock, contentCache["current"])>>
         /\ result' = Returned("getCurrentContent (cached)", contentCache["current"])
         /\ UNCHANGED <<db, contents, now, monVars, millis, contentCache,
                        lastContentUpdate, calls, connectedUsers,
                        viewerSessions, disconnected>>
    ELSE /\ BagCardinality(calls) < MaxCalls
         /\ calls' = calls (+) SetToBag({Call(sock, DateNow)})
         /\ UNCHANGED <<db, contents, now, monVars, result, millis, contentCache,
                        lastContentUpdate, connectedUsers, sent,
                        viewerSessions, disconnected>>

\* the find of fetchCurrentContent resolves: the result is stored under
\* 'current' with the Date.now() read before the await, and answered; an
\* exception of the loop ends in the catch block of getCurrentContent
FetchResolves ==
    \E c \in BagToSet(calls) :
        LET content == fetchCurrentContent(FindActive(db, contents), now) IN
        /\ calls' = calls (-) SetToBag({c})
        /\ IF content = Thrown
           THEN /\ sent' = <<Answer(c.socket, CaughtValue)>>
                /\ result' = Returned("getCurrentContent (fetch rejected)", CaughtValue)
                /\ UNCHANGED <<contentCache, lastContentUpdate>>
           ELSE /\ contentCache' = [k \in {"current"} |-> content]
                /\ lastContentUpdate' = c.now
                /\ sent' = <<Answer(c.socket, content)>>
                /\ result' = Returned("getCurrentContent", content)
        /\ UNCHANGED <<db, contents, now, monVars, millis, connectedUsers,
                       viewerSessions, disconnected>>

\* the find of fetchCurrentContent rejects: fetchCurrentContent throws it
\* again, the catch block of getCurrentContent returns
FetchRejects ==
    \E c \in BagToSet(calls) :
        /\ calls' = calls (-) SetToBag({c})
        /\ sent' = <<Answer(c.socket, CaughtValue)>>
        /\ result' = Returned("getCurrentContent (fetch rejected)", CaughtValue)
        /\ UNCHANGED <<db, contents, now, monVars, millis, contentCache,
                       lastContentUpdate, connectedUsers,
                       viewerSessions, disconnected>>

(***************************************************************************)
(* SpecViewer: viewers asking for the current content while time passes    *)
(***************************************************************************)
Sockets == {"k1"}
Roles == {"VIEWER", "ADMIN"}

\* the clock moves in steps of half a cacheTimeout
TockMillis == cacheTimeout \div 2

\* 12:30 IST of Jan 10: both initial schedules are inside their windows
InitViewer ==
    /\ \E on \in [1..MaxSchedules -> BOOLEAN] :
          db = [i \in 1..MaxSchedules |-> InitialSchedule(i, on[i])]
    /\ contents = [c \in {"c1", "c2"} |-> "approved"]
    /\ now = Day(9) + 420
    /\ MonitorIdle
    /\ ServiceIdle
    /\ result = NoResult

Tock ==
    /\ (now - (Day(9) + 420)) * MillisPerMinute + millis < MaxTocks * TockMillis
    /\ IF millis + TockMillis >= MillisPerMinute
       THEN now' = now + 1 /\ millis' = millis + TockMillis - MillisPerMinute
       ELSE now' = now /\ millis' = millis + TockMillis
    /\ UNCHANGED <<db, contents, monVars, result, contentCache, lastContentUpdate,
                   calls, connectedUsers, sent,
                   viewerSessions, disconnected>>

Join == \E sock \in Sockets, role \in Roles : JoinRoom(sock, role)

Request == \E sock \in Sockets : RequestCurrentContent(sock)

NextViewer ==
    \/ Join
    \/ Request
    \/ FetchResolves
    \/ FetchRejects
    \/ Tock
    \/ UpdateSchedule

SpecViewer == InitViewer /\ [][NextViewer]_vars

(***************************************************************************)
(* SpecServer: the monitor and a connected viewer on one server            *)
(***************************************************************************)
InitServer ==
    /\ \E on \in [1..MaxSchedules -> BOOLEAN] :
          db = [i \in 1..MaxSchedules |-> InitialSchedule(i, on[i])]
    /\ contents = [c \in {"c1", "c2"} |-> "approved"]
    /\ now = Day(9) + 420
    /\ MonitorIdle
    /\ millis = 0
    /\ contentCache = <<>>
    /\ lastContentUpdate = 0
    /\ calls = EmptyBag
    /\ connectedUsers = [k \in {"k1"} |-> "VIEWER"]
    /\ sent = <<>>
    /\ viewerSessions = {"k1"}
    /\ disconnected = {}
    /\ result = NoResult

NextServer ==
    \/ TickStart
    \/ TickFetched
    \/ TickFetchFails
    \/ TickFetchedAgain
    \/ TickFetchAgainFails
    \/ TickCompare
    \/ UpdateSchedule
    \/ Request
    \/ FetchResolves
    \/ FetchRejects

SpecServer == InitServer /\ [][NextServer]_vars

(***************************************************************************)
(* Claims on getCurrentContent (SpecViewer, SpecServer)                    *)
(***************************************************************************)
\* the step starts the fetch of call c
IsFetchStart(c) ==
    /\ c \in BagToSet(calls')
    /\ calls' = calls (+) SetToBag({c})

\* the step is the end of call c: its fetch settled and the handler answered
IsCallEnd(c) ==
    /\ c \in BagToSet(calls)
    /\ calls' = calls (-) SetToBag({c})

\* v is a content payload of a stored schedule
IsPayload(v) ==
    /\ \E i \in 1..Len(db) : db[i].id = v.schedule
    /\ v.contentId \in DOMAIN contents

\* C12: while less than cacheTimeout has passed since the refresh that stored
\* the 'current' entry, getCurrentContent starts no fetch, whatever the entry
\* holds, nothing active included; it answers from the cache only then, with
\* the stored entry; a fetch that resolves stores its result with the time the
\* call read.
C12_CacheServedWithinTimeout ==
    [][ /\ \A c \in BagToSet(calls') :
              IsFetchStart(c)
              => ~(CacheFresh(c.now) /\ "current" \in DOMAIN contentCache)
        /\ (result' # result /\ result'.op = "getCurrentContent (cached)")
              => /\ CacheFresh(DateNow)
                 /\ result'.content = contentCache["current"]
        /\ \A c \in BagToSet(calls) :
              (IsCallEnd(c) /\ result'.op = "getCurrentContent")
              => /\ contentCache' = [k \in {"current"} |-> result'.content]
                 /\ lastContentUpdate' = c.now
      ]_vars

\* C16: getCurrentContent never fails: every handler of a viewer's
\* 'request-current-content' ends with exactly one 'current-content-response'
\* of success true carrying a content payload or nothing active, whether the
\* fetch resolved, found nothing or was rejected and whatever the cache holds;
\* 'error' goes only to a socket that is not registered as a viewer.
C16_ViewerQueryNeverFails ==
    [][ /\ \A c \in BagToSet(calls) :
              IsCallEnd(c)
              => /\ result'.content = NoContent \/ IsPayload(result'.content)
                 /\ sent' = << [name |-> "current-content-response",
                                socket |-> c.socket, success |-> TRUE,
                                data |-> result'.content] >>
        /\ (calls' = calls /\ sent' # sent /\ sent' # <<>>
                /\ sent'[1].name # "content-refresh")
              => /\ Len(sent') = 1
                 /\ IF sent'[1].socket \in DOMAIN connectedUsers
                       /\ connectedUsers[sent'[1].socket] = "VIEWER"
                    THEN /\ sent'[1].name = "current-content-response"
                         /\ sent'[1].success
                         /\ IsPayload(sent'[1].data)
                    ELSE sent'[1].name = "error"
      ]_vars

\* the fetch of a viewer's request was rejected while the cache held content,
\* and the viewer was answered success with nothing active
C16_Witness ==
    /\ result.op = "getCurrentContent (fetch rejected)"
    /\ "current" \in DOMAIN contentCache
    /\ contentCache["current"] # NoContent
    /\ sent = << [name |-> "current-content-response", socket |-> "k1",
                  success |-> TRUE, data |-> NoContent] >>

\* C14: a resolution cycle whose repository fetch fails emits nothing and
\* changes no state: a tick of checkScheduleChanges with a rejected find leaves
\* currentActiveSchedule and the watermarks as they were, and a getCurrentContent
\* whose fetch is rejected leaves the 'current' entry and lastContentUpdate.
C14_FailedFetchChangesNothing ==
    [][ /\ \A tk \in BagToSet(ticks) :
              (tk.pc = "find" /\ ticks' = ticks (-) SetToBag({tk}))
              => UNCHANGED <<lastCheckedSchedules, currentActiveSchedule, emitted>>
        /\ \A tk \in BagToSet(ticks) :
              (IsCompareStep(tk) /\ tk.fetchFailed)
              => /\ emitted' = <<>>
                 /\ UNCHANGED <<lastCheckedSchedules, currentActiveSchedule>>
        /\ \A c \in BagToSet(calls) :
              (IsCallEnd(c) /\ result'.op = "getCurrentContent (fetch rejected)")
              => UNCHANGED <<contentCache, lastContentUpdate>>
      ]_vars

\* C18: when a tick of checkScheduleChanges has computed its resolution result,
\* the 'current' entry of the content cache is that result.
C18_TickRefreshesCache ==
    [][ \A tk \in BagToSet(ticks) :
            (IsCompareStep(tk) /\ ~tk.fetchFailed)
            => /\ "current" \in DOMAIN contentCache'
               /\ contentCache'["current"] = tk.currentContent
      ]_vars

\* C25: under interleaved getCurrentContent calls lastContentUpdate never
\* decreases, and the entry cached under 'current' is never replaced by the
\* result of a call whose fetch started before the fetch of the call whose
\* result is stored.
C25_CacheNeverGoesBack ==
    [][ /\ lastContentUpdate' >= lastContentUpdate
        /\ \A c \in BagToSet(calls) :
              (IsCallEnd(c) /\ result'.op = "getCurrentContent")
              => c.now >= lastContentUpdate
      ]_vars

(***************************************************************************)
(* SpecSockets: sockets joining rooms, joining again and disconnecting     *)
(***************************************************************************)
SessionSockets == {"k1", "k2", "k3"}

InitSockets ==
    /\ \E on \in [1..MaxSchedules -> BOOLEAN] :
          db = [i \in 1..MaxSchedules |-> InitialSchedule(i, on[i])]
    /\ contents = [c \in {"c1", "c2"} |-> "approved"]
    /\ now = Day(9) + 420
    /\ MonitorIdle
    /\ ServiceIdle
    /\ result = NoResult

\* 'join-room' on a connected socket
JoinConnected ==
    \E sock \in SessionSockets \ disconnected, role \in Roles : JoinRoom(sock, role)

\* a connected socket disconnects
SocketDisconnects == \E sock \in SessionSockets : Disconnect(sock)

NextSockets == JoinConnected \/ SocketDisconnects

SpecSockets == InitSockets /\ [][NextSockets]_vars

\* C29: after any sequence of 'join-room' (also repeated on one socket with
\* another role) and disconnect, viewerSessions holds exactly the sockets
\* registered in connectedUsers with role VIEWER, so that it is not larger than
\* connectedUsers, and a disconnected socket is in neither map.
C29_ViewerSessionsMatchRoles ==
    /\ viewerSessions = { k \in DOMAIN connectedUsers : connectedUsers[k] = "VIEWER" }
    /\ Cardinality(viewerSessions) <= Cardinality(DOMAIN connectedUsers)
    /\ \A k \in disconnected : k \notin DOMAIN connectedUsers /\ k \notin viewerSessions

(***************************************************************************)
(* SpecOverlap: checkScheduleChanges with the database between the monitor *)
(* and the collection.  A find is issued, executed by the database at some *)
(* instant (the snapshot) and delivered at a later one; the finds of       *)
(* different ticks travel on different connections of the pool and are     *)
(* delivered in any order.  What follows a delivery runs without another   *)
(* await on I/O up to the end of the tick, so it is one step.              *)
(***************************************************************************)
\* a tick whose find (pc "found") or whose getCurrentActiveContent's find (pc
\* "found2") the database has executed; the snapshot is on its way back
Fetching(pc, snapshot, hasChanges) ==
    [pc |-> pc, snapshot |-> snapshot, hasChanges |-> hasChanges]

\* the database executes Schedule.find({ isActive: true }).populate(...).lean()
Executed(snapshot) == [NoResult EXCEPT !.op = "find", !.snapshot = snapshot]

\* the database executes the find of a tick
FindExecuted ==
    \E tk \in BagToSet(ticks) :
        /\ tk.pc = "find"
        /\ LET snapshot == FindActive(db, contents)
           IN  /\ ticks' = (ticks (-) SetToBag({tk})) (+)
                     SetToBag({ Fetching("found", snapshot, FALSE) })
               /\ result' = Executed(snapshot)
        /\ UNCHANGED <<db, contents, now, lastCheckedSchedules, currentActiveSchedule,
                       emitted, svcVars,
                       checkInterval, liveTimers>>

\* lines 57-87 of checkScheduleChanges: compare, assign, emit
Conclude(hasChanges, currentContent, count) ==
    LET tk == Tick("compare", hasChanges, currentContent, count)
    IN  /\ currentActiveSchedule' =
              NextActiveSchedule(currentContent, currentActiveSchedule)
        /\ emitted' = ContentRefresh(currentContent, currentActiveSchedule)
                        \o StatusUpdate(tk, currentActiveSchedule)

\* the snapshot arrives: watermark loop with currentTime = new Date(), then
\* getCurrentActiveContent(activeSchedules), which resolves the winner at once
\* unless the list is empty and it issues a find of its own
FindDelivered ==
    \E tk \in BagToSet(ticks) :
        /\ tk.pc = "found"
        /\ LET activeSchedules == tk.snapshot
               upd == CheckUpdates(activeSchedules, 1, lastCheckedSchedules, FALSE, now)
           IN  /\ lastCheckedSchedules' = upd.checked
               /\ IF Len(activeSchedules) # 0
                  THEN /\ Conclude(upd.hasChanges,
                                   getCurrentActiveContent(activeSchedules, now),
                                   Len(activeSchedules))
                       /\ ticks' = ticks (-) SetToBag({tk})
                  ELSE /\ ticks' = (ticks (-) SetToBag({tk})) (+)
                             SetToBag({ Tick("find2", upd.hasChanges, NoContent, 0) })
                       /\ UNCHANGED <<currentActiveSchedule, emitted>>
        /\ UNCHANGED <<db, contents, now, result, svcVars,
                       checkInterval, liveTimers>>

\* the database executes the find of getCurrentActiveContent
FindAgainExecuted ==
    \E tk \in BagToSet(ticks) :
        /\ tk.pc = "find2"
        /\ LET snapshot == FindActive(db, contents)
           IN  /\ ticks' = (ticks (-) SetToBag({tk})) (+)
                     SetToBag({ Fetching("found2", snapshot, tk.hasChanges) })
               /\ result' = Executed(snapshot)
        /\ UNCHANGED <<db, contents, now, lastCheckedSchedules, currentActiveSchedule,
                       emitted, svcVars,
                       checkInterval, liveTimers>>

\* the snapshot of getCurrentActiveContent arrives: it resolves the winner and
\* the tick runs to its end
FindAgainDelivered ==
    \E tk \in BagToSet(ticks) :
        /\ tk.pc = "found2"
        /\ Conclude(tk.hasChanges, getCurrentActiveContent(tk.snapshot, now), 0)
        /\ ticks' = ticks (-) SetToBag({tk})
        /\ UNCHANGED <<db, contents, now, lastCheckedSchedules, result, svcVars,
                       checkInterval, liveTimers>>

\* the find of getCurrentActiveContent rejects: its catch block returns null
\* and the tick runs to its end
FindAgainRejected ==
    \E tk \in BagToSet(ticks) :
        /\ tk.pc = "find2"
        /\ Conclude(tk.hasChanges, NoContent, 0)
        /\ ticks' = ticks (-) SetToBag({tk})
        /\ UNCHANGED <<db, contents, now, lastCheckedSchedules, result, svcVars,
                       checkInterval, liveTimers>>

\* Jan 10 at 12:30 and 12:31 IST: both schedules are inside their windows
OverlapInstants == { Day(9) + 420, Day(9) + 421 }

InitOverlap ==
    /\ \E on \in [1..MaxSchedules -> BOOLEAN] :
          db = [i \in 1..MaxSchedules |-> InitialSchedule(i, on[i])]
    /\ contents = [c \in {"c1", "c2"} |-> "approved"]
    /\ now = Day(9) + 420
    /\ MonitorIdle
    /\ ServiceIdle
    /\ result = NoResult

\* time passes
Later ==
    /\ \E t \in OverlapInstants : t > now /\ now' = t
    /\ UNCHANGED <<db, contents, monVars, result, svcVars>>

NextOverlap ==
    \/ TickStart
    \/ FindExecuted
    \/ TickFetchFails
    \/ FindDelivered
    \/ FindAgainExecuted
    \/ FindAgainDelivered
    \/ FindAgainRejected
    \/ Later
    \/ UpdateSchedule

SpecOverlap == InitOverlap /\ [][NextOverlap]_vars

(***************************************************************************)
(* Claims on overlapping ticks and on edits racing a tick (SpecOverlap)    *)
(***************************************************************************)
\* the step is the arrival of the snapshot tick tk asked for
IsDeliveredStep(tk) ==
    /\ tk \in BagToSet(ticks)
    /\ tk.pc = "found"
    /\ CopiesIn(tk, ticks') < CopiesIn(tk, ticks)

\* C23: no edit of an enabled schedule is lost by the monitor: when a tick
\* records a watermark for a schedule that was edited after the tick's snapshot
\* was taken, the watermark stays earlier than that edit, so that a later tick
\* reads updatedAt > watermark and emits 'schedule-status-update'.
C23_NoEditLost ==
    [][ \A tk \in BagToSet(ticks) :
            IsDeliveredStep(tk) =>
               \A i \in 1..Len(db), k \in 1..Len(tk.snapshot) :
                  (/\ db[i].isActive
                   /\ tk.snapshot[k].id = db[i].id
                   /\ tk.snapshot[k].updatedAt < db[i].updatedAt
                   /\ db[i].id \in DOMAIN lastCheckedSchedules')
                  => lastCheckedSchedules'[db[i].id] < db[i].updatedAt
      ]_vars

\* C24: once every tick in flight has finished, currentActiveSchedule names the
\* winner of the snapshot the database produced last, and so does the
\* 'content-refresh' of the tick that finished last, if it sent one.
C24_NewestSnapshotWins ==
    (ticks = EmptyBag /\ result.op = "find")
    => LET winner == getCurrentActiveContent(result.snapshot, now).schedule
       IN  /\ currentActiveSchedule = winner
           /\ \A k \in 1..Len(emitted) :
                 emitted[k].name = "content-refresh"
                    => emitted[k].newContent.schedule = winner

(***************************************************************************)
(* FairOverlap: SpecOverlap with the scheduling the server provides.  The  *)
(* cron job keeps starting ticks; a find that is issued again and again is *)
(* executed in the end, though any single one may be rejected; a snapshot  *)
(* on its way back arrives.                                                *)
(***************************************************************************)
\* the steps of SpecOverlap at one instant
NextSteady ==
    \/ TickStart
    \/ FindExecuted
    \/ TickFetchFails
    \/ FindDelivered
    \/ FindAgainExecuted
    \/ FindAgainDelivered
    \/ FindAgainRejected
    \/ UpdateSchedule

FairOverlap ==
    /\ InitOverlap
    /\ [][NextSteady]_vars
    /\ WF_vars(TickStart)
    /\ SF_vars(FindExecuted)
    /\ WF_vars(FindDelivered)
    /\ SF_vars(FindAgainExecuted)
    /\ WF_vars(FindAgainDelivered)

\* the winner of the collection as it is stored now
TrueWinner == getCurrentActiveContent(FindActive(db, contents), now).schedule

\* the tick that finished last made w the held winner and sent the
\* 'content-refresh' that carries it
Announced(w) ==
    /\ currentActiveSchedule = w
    /\ \E k \in 1..Len(emitted) :
          /\ emitted[k].name = "content-refresh"
          /\ emitted[k].newContent.schedule = w

\* C27: if the true winner becomes W (a schedule or none) and stays W while
\* ticks keep occurring and their fetches succeed in the end, then from some
\* point on currentActiveSchedule stays W; and the tick that makes W the held
\* winner emits the 'content-refresh' that carries W.
C27_WinnerEventuallyHeld ==
    /\ \A w \in {NULL} \cup { Ids[i] : i \in 1..MaxSchedules } :
          <>[](TrueWinner = w) => <>[](currentActiveSchedule = w)
    /\ [][ \A w \in {NULL} \cup { Ids[i] : i \in 1..MaxSchedules } :
              (currentActiveSchedule # w /\ currentActiveSchedule' = w)
              => Announced(w)' ]_vars

\* the second schedule was seen enabled by a tick and then switched off by an
\* edit: the first schedule is the winner now, announced and held
C27_Witness ==
    /\ "s2" \in DOMAIN lastCheckedSchedules
    /\ ~db[2].isActive
    /\ db[2].updatedAt > 0
    /\ TrueWinner = "s1"
    /\ Announced("s1")
    /\ ticks = EmptyBag

(***************************************************************************)
(* services/scheduleMonitor.js: startMonitoring, stopMonitoring, cleanup   *)
(***************************************************************************)
\* the Timeout objects setInterval can return
TimerIds == 1..MaxTimers

\* a startMonitoring that leaves the previous timer running
ClearedTimersKept(timer, timers) == timers

\* if (this.checkInterval) clearInterval(this.checkInterval): the timers left
ClearedTimers(timer, timers) ==
    IF timer # 0 THEN timers \ {timer} ELSE timers

\* the Timeout object setInterval returns: one that is not live
NewTimer(timers) ==
    CHOOSE t \in TimerIds \ timers : \A u \in TimerIds \ timers : t <= u

\* the method of the monitor that ran last
Did(op) == [NoResult EXCEPT !.op = op]

\* startMonitoring(interval)
startMonitoring ==
    LET cleared == ClearedTimers(checkInterval, liveTimers) IN
    /\ TimerIds \ cleared # {}
    /\ checkInterval' = NewTimer(cleared)
    /\ liveTimers' = cleared \cup {NewTimer(cleared)}
    /\ result' = Did("startMonitoring")
    /\ UNCHANGED <<db, contents, now, lastCheckedSchedules, currentActiveSchedule,
                   ticks, emitted, svcVars>>

\* checkInterval and the live timers after stopMonitoring()
Stopped(timer, timers) ==
    IF timer # 0
    THEN [checkInterval |-> 0, liveTimers |-> timers \ {timer}]
    ELSE [checkInterval |-> timer, liveTimers |-> timers]

\* stopMonitoring()
stopMonitoring ==
    /\ checkInterval' = Stopped(checkInterval, liveTimers).checkInterval
    /\ liveTimers' = Stopped(checkInterval, liveTimers).liveTimers
    /\ result' = Did("stopMonitoring")
    /\ UNCHANGED <<db, contents, now, lastCheckedSchedules, currentActiveSchedule,
                   ticks, emitted, svcVars>>

\* cleanup(): clear the watermarks, forget the winner, stopMonitoring()
cleanup ==
    /\ lastCheckedSchedules' = <<>>
    /\ currentActiveSchedule' = NULL
    /\ checkInterval' = Stopped(checkInterval, liveTimers).checkInterval
    /\ liveTimers' = Stopped(checkInterval, liveTimers).liveTimers
    /\ result' = Did("cleanup")
    /\ UNCHANGED <<db, contents, now, ticks, emitted, svcVars>>

\* a live interval timer fires: () => this.checkScheduleChanges()
IntervalFires ==
    /\ liveTimers # {}
    /\ TickStart

(***************************************************************************)
(* SpecTimer: the monitor driven by its own interval timer                 *)
(***************************************************************************)
InitTimer ==
    /\ \E on \in [1..MaxSchedules -> BOOLEAN] :
          db = [i \in 1..MaxSchedules |-> InitialSchedule(i, on[i])]
    /\ contents = [c \in {"c1", "c2"} |-> "approved"]
    /\ now = Day(9) + 270
    /\ MonitorIdle
    /\ ServiceIdle
    /\ result = NoResult

NextTimer ==
    \/ startMonitoring
    \/ stopMonitoring
    \/ cleanup
    \/ IntervalFires
    \/ TickFetched
    \/ TickFetchFails
    \/ TickFetchedAgain
    \/ TickFetchAgainFails
    \/ TickCompare

SpecTimer == InitTimer /\ [][NextTimer]_vars

\* C30: after any sequence of startMonitoring, stopMonitoring and cleanup at
\* most one interval timer is live, and it is the one checkInterval holds;
\* stopMonitoring is idempotent; and cleanup leaves the monitor as constructed:
\* no live timer, no watermark, no winner.
C30_TimerLifecycle ==
    /\ [](/\ Cardinality(liveTimers) <= 1
          /\ liveTimers = IF checkInterval = 0 THEN {} ELSE {checkInterval}
          /\ LET once == Stopped(checkInterval, liveTimers)
             IN  Stopped(once.checkInterval, once.liveTimers) = once)
    /\ [][ (result'.op = "cleanup" /\ ticks' = ticks)
           => /\ liveTimers' = {}
              /\ checkInterval' = 0
              /\ lastCheckedSchedules' = <<>>
              /\ currentActiveSchedule' = NULL
         ]_vars

\* cleanup ran on a monitor whose timer had fired and whose tick had recorded
\* watermarks and announced a winner: the announcement is still there, the
\* watermarks, the winner and the timer are gone
C30_Witness ==
    /\ result.op = "cleanup"
    /\ emitted # <<>>
    /\ ticks = EmptyBag
    /\ lastCheckedSchedules = <<>>
    /\ currentActiveSchedule = NULL
    /\ checkInterval = 0
    /\ liveTimers = {}

====
